---- MODULE Spec2Model ----
(***************************************************************************)
(* OneScriber (src/main.py): a Streamlit script that downloads the audio   *)
(* of a YouTube URL, transcribes it with Whisper, reformats the transcript *)
(* with an LLM and offers a chat about it.                                 *)
(*                                                                         *)
(* Streamlit re-executes the whole script, top to bottom, on every user    *)
(* interaction of a session; st.session_state survives between the runs of *)
(* one session.  A script run that handles the transcribe button is split  *)
(* at its external calls (file removal, download, speech-to-text, LLM,     *)
(* file write), because the two files it touches live in the process's     *)
(* working directory and are shared by all sessions.                       *)
(***************************************************************************)
EXTENDS Naturals, Sequences, FiniteSets, TLC

VARIABLES
    LLM_AVAILABLE,            \* line 13: bool(GOOGLE_API_KEY), fixed per process
    active,                   \* the sessions (browser tabs) that exist
    pc,                       \* per session: position of its script run
    transcription_text,       \* st.session_state.transcription_text
    chat_history,             \* st.session_state.chat_history
    chain,                    \* st.session_state.chain
    youtube_url,              \* script local, line 164
    user_input,               \* script local, line 226
    audio_file_path,          \* script local, line 177
    transcribed_text,         \* script local, line 179
    final_text_for_download,  \* script local, lines 182 and 190
    audio_file,               \* the file "downloaded_audio" (shared)
    transcription_txt,        \* the file "transcription.txt" (shared)
    notices,                  \* per session: what the current/last run displayed
    text_area,                \* per session: value of the text area of line 207
    calls,                    \* per session: external calls of the current/last run
    llm_requests,             \* per session: LLM requests of the current/last run
    last,                     \* per session: the event the current/last run handles
    snap                      \* per session: session state when that run began

vars == <<LLM_AVAILABLE, active, pc, transcription_text, chat_history, chain,
          youtube_url, user_input, audio_file_path, transcribed_text,
          final_text_for_download, audio_file, transcription_txt, notices,
          text_area, calls, llm_requests, last, snap>>

\* ------------------------------------------------------------------ bounds
MaxHistory == 4

\* ------------------------------------------------------------------ values
\* Python's None
NoneVal == "<None>"

AllSessions == {1, 2}

\* The URL field: empty, two videos with speech, one video without speech.
URLs == {"", "u1", "u2", "u3"}

\* The chat field: empty, or one of two questions.
Questions == {"", "q1", "q2"}

\* Python truthiness of an optional string (lines 167, 178, 180, 189, 217, 226).
Truthy(x) == x # NoneVal /\ x # ""

AUDIO_FILENAME_BASE == "downloaded_audio"

\* whisper_model.transcribe(audio_path)["text"]: the text spoken in the audio.
Speech(audio) ==
    CASE audio = "u1" -> "t1"
      [] audio = "u2" -> "t2"
      [] OTHER -> ""

\* The content the LLM returns for the reformat prompt filled with raw: the
\* same text laid out as Markdown bullets.
Markdown(raw) ==
    CASE raw = "t1" -> "- t1"
      [] raw = "t2" -> "- t2"
      [] OTHER -> ""

\* The content the LLM returns for a question about a context.
Answer(contexto, pergunta) == "answer"

\* llm = load_llm() if LLM_AVAILABLE else None
llm == IF LLM_AVAILABLE THEN "gemini-1.5-flash" ELSE NoneVal

\* The only prompt template of the program.
reformat_prompt == "reformat_prompt"

\* The placeholders a template requires.
InputVariables(template) ==
    IF template = reformat_prompt THEN {"transcricao_bruta"} ELSE {}

\* prompt | model: a chain, known by its prompt; piping into None raises.
Pipe(prompt, model) == IF model = NoneVal THEN "TypeError" ELSE prompt

\* chain.invoke(input): the prompt is filled first, and raises KeyError when
\* the input lacks one of its placeholders; only then the LLM is called.
MissingVariables(ch, keys) == InputVariables(ch) \ keys

\* One LLM request, by template and placeholder values.
Request(template, bruta, contexto, pergunta) ==
    [template |-> template, transcricao_bruta |-> bruta,
     contexto |-> contexto, pergunta |-> pergunta]

Message(role, content) == [role |-> role, content |-> content]

\* Variant of UrlAccepted that lost the test of line 167.
UrlAccepted_Always(url) == TRUE

\* Line 167: the button handler acts on a non-empty URL only.
UrlAccepted(url) == Truthy(url)

\* Variant of ResetHistory that lost the assignment of line 169.
ResetHistory_Keep(history) == history

\* Line 169: a new transcription starts with an empty chat history.
ResetHistory(history) == << >>

\* Line 168: a new transcription starts without a transcript.
ResetTranscript(text) == NoneVal

\* Variant of TranscriptAccepted that tests "is not None" instead of truthiness.
TranscriptAccepted_NotNone(text) == text # NoneVal

\* Line 180: the run goes on only with a non-empty transcript.
TranscriptAccepted(text) == Truthy(text)

\* Variant of ReformattedOrRaw that lost the test of line 189.
ReformattedOrRaw_Always(raw, content) == content

\* Variant of ReformattedOrRaw that lost the assignments of lines 190-191.
ReformattedOrRaw_Never(raw, content) == raw

\* Lines 181 and 189-194: the session's transcript after the reformat call
\* returned content: the content, unless it is empty.
ReformattedOrRaw(raw, content) == IF Truthy(content) THEN content ELSE raw

\* Variant of PersistedText that writes final_text_for_download.
PersistedText_Final(raw, final) == final

\* Line 201: what is written to transcription.txt.
PersistedText(raw, final) == raw

\* Variant of ChatOffered that lost the test of line 217.
ChatOffered_Always(text) == TRUE

\* Line 217: the chat block (history and question input) is rendered only
\* while the session has a transcript.
ChatOffered(text) == Truthy(text)

\* Lines 217-241 without a submitted question: the chat block is rendered
\* when there is a transcript, and a hint is shown otherwise.
ChatBlockNotices(text) == IF ChatOffered(text) THEN {"chat_input"} ELSE {"info_insert_url"}

\* ------------------------------------------------------------------- Init
Init ==
    /\ LLM_AVAILABLE \in BOOLEAN
    /\ active = {1}
    /\ pc = [s \in AllSessions |-> "new"]
    /\ transcription_text = [s \in AllSessions |-> NoneVal]
    /\ chat_history = [s \in AllSessions |-> <<>>]
    /\ chain = [s \in AllSessions |-> NoneVal]
    /\ youtube_url = [s \in AllSessions |-> ""]
    /\ user_input = [s \in AllSessions |-> NoneVal]
    /\ audio_file_path = [s \in AllSessions |-> NoneVal]
    /\ transcribed_text = [s \in AllSessions |-> NoneVal]
    /\ final_text_for_download = [s \in AllSessions |-> NoneVal]
    /\ audio_file = NoneVal
    /\ transcription_txt = NoneVal
    /\ notices = [s \in AllSessions |-> {}]
    /\ text_area = [s \in AllSessions |-> NoneVal]
    /\ calls = [s \in AllSessions |-> <<>>]
    /\ llm_requests = [s \in AllSessions |-> {}]
    /\ last = [s \in AllSessions |-> "none"]
    /\ snap = [s \in AllSessions |-> [text |-> NoneVal, history |-> <<>>]]

\* ---------------------------------------------------------------- actions
\* What every script run does first: nothing of the previous run is on screen.
BeginRun(s, event) ==
    /\ last' = [last EXCEPT ![s] = event]
    /\ snap' = [snap EXCEPT ![s] = [text |-> transcription_text[s],
                                    history |-> chat_history[s]]]
    /\ text_area' = [text_area EXCEPT ![s] = NoneVal]
    /\ calls' = [calls EXCEPT ![s] = <<>>]
    /\ llm_requests' = [llm_requests EXCEPT ![s] = {}]

\* The first script run of a session, lines 155-161: the session state is
\* created; building the chain raises when there is no LLM, which ends this
\* run (and every later one) before any input widget is rendered.
FirstRun(s) ==
    /\ s \in active
    /\ pc[s] = "new"
    /\ BeginRun(s, "start")
    /\ transcription_text' = [transcription_text EXCEPT ![s] = NoneVal]
    /\ chat_history' = [chat_history EXCEPT ![s] = <<>>]
    /\ LET warned == IF LLM_AVAILABLE THEN {} ELSE {"warn_no_api_key"} IN
       IF Pipe(reformat_prompt, llm) = "TypeError"
         THEN /\ chain' = chain
              /\ pc' = [pc EXCEPT ![s] = "crashed"]
              /\ notices' = [notices EXCEPT ![s] = warned \cup {"uncaught_exception"}]
         ELSE /\ chain' = [chain EXCEPT ![s] = Pipe(reformat_prompt, llm)]
              /\ pc' = [pc EXCEPT ![s] = "idle"]
              /\ notices' = [notices EXCEPT ![s] = warned \cup ChatBlockNotices(NoneVal)]
    /\ UNCHANGED <<LLM_AVAILABLE, active, youtube_url, user_input, audio_file_path,
                   transcribed_text, final_text_for_download, audio_file,
                   transcription_txt>>

\* Lines 164-169 and 213-214, and the chat block of 217-241 when the URL is
\* empty: the transcribe button is pressed with url in the URL field.
SubmitURL(s, url) ==
    /\ s \in active
    /\ pc[s] = "idle"
    /\ BeginRun(s, "button")
    /\ youtube_url' = [youtube_url EXCEPT ![s] = url]
    /\ user_input' = [user_input EXCEPT ![s] = NoneVal]
    /\ IF UrlAccepted(url)
         THEN /\ transcription_text' = [transcription_text EXCEPT ![s] = ResetTranscript(@)]
              /\ chat_history' = [chat_history EXCEPT ![s] = ResetHistory(@)]
              /\ notices' = [notices EXCEPT ![s] = {}]
              /\ pc' = [pc EXCEPT ![s] = "remove"]
         ELSE /\ notices' = [notices EXCEPT ![s] =
                     {"warn_empty_url"} \cup ChatBlockNotices(transcription_text[s])]
              /\ UNCHANGED <<transcription_text, chat_history, pc>>
    /\ audio_file_path' = [audio_file_path EXCEPT ![s] = NoneVal]
    /\ transcribed_text' = [transcribed_text EXCEPT ![s] = NoneVal]
    /\ final_text_for_download' = [final_text_for_download EXCEPT ![s] = NoneVal]
    /\ UNCHANGED <<LLM_AVAILABLE, active, chain, audio_file, transcription_txt>>

\* Lines 171-175: a file left in the audio slot is removed; a failing removal
\* is reported and the run goes on.
RemoveStale(s) ==
    /\ s \in active
    /\ pc[s] = "remove"
    /\ IF audio_file # NoneVal
         THEN \E removed \in BOOLEAN :
                /\ calls' = [calls EXCEPT ![s] = Append(@, "remove")]
                /\ IF removed
                     THEN /\ audio_file' = NoneVal
                          /\ notices' = notices
                     ELSE /\ audio_file' = audio_file
                          /\ notices' = [notices EXCEPT ![s] = @ \cup {"warn_remove_failed"}]
         ELSE UNCHANGED <<calls, audio_file, notices>>
    /\ pc' = [pc EXCEPT ![s] = "download"]
    /\ UNCHANGED <<LLM_AVAILABLE, active, transcription_text, chat_history, chain,
                   youtube_url, user_input, audio_file_path, transcribed_text,
                   final_text_for_download, transcription_txt, text_area,
                   llm_requests, last, snap>>

\* Variant of DownloadedPath that lost the test of line 76 and returns the
\* file name from the except branch too.
DownloadedPath_Always(raised, exists) == AUDIO_FILENAME_BASE

\* Lines 72-84: what download_audio_from_youtube returns: the file name when
\* the downloader did not raise and the file exists afterwards, else None.
DownloadedPath(raised, exists) ==
    IF ~raised /\ exists THEN AUDIO_FILENAME_BASE ELSE NoneVal

\* Lines 57-84 and 177-178, 211-212: the downloader runs once; it writes the
\* audio file, returns without writing it, or raises.
Download(s) ==
    /\ s \in active
    /\ pc[s] = "download"
    /\ calls' = [calls EXCEPT ![s] = Append(@, "download")]
    /\ \E outcome \in {"written", "nothing_written", "raise"} :
         /\ audio_file' = IF outcome = "written" THEN youtube_url[s] ELSE audio_file
         /\ LET path == DownloadedPath(outcome = "raise", audio_file' # NoneVal)
                shown == IF outcome = "raise" THEN {"err_download_exception"}
                         ELSE IF audio_file' # NoneVal THEN {"ok_downloaded"}
                         ELSE {"err_file_not_found"}
            IN  /\ audio_file_path' = [audio_file_path EXCEPT ![s] = path]
                /\ IF Truthy(path)
                     THEN /\ notices' = [notices EXCEPT ![s] = @ \cup shown]
                          /\ pc' = [pc EXCEPT ![s] = "transcribe"]
                     ELSE /\ notices' = [notices EXCEPT ![s] =
                                 @ \cup shown \cup {"err_download_failed"}
                                   \cup ChatBlockNotices(transcription_text[s])]
                          /\ pc' = [pc EXCEPT ![s] = "idle"]
    /\ UNCHANGED <<LLM_AVAILABLE, active, transcription_text, chat_history, chain,
                   youtube_url, user_input, transcribed_text, final_text_for_download,
                   transcription_txt, text_area, llm_requests, last, snap>>

\* Lines 86-91 and 179-182, 197-198, 209-210: Whisper transcribes the file in
\* the audio slot.  An exception of the model is not caught: it ends the
\* script run, and Streamlit shows it.
Transcribe(s) ==
    /\ s \in active
    /\ pc[s] = "transcribe"
    /\ calls' = [calls EXCEPT ![s] = Append(@, "transcribe")]
    /\ \E raises \in BOOLEAN :
         IF raises \/ audio_file = NoneVal
           THEN /\ notices' = [notices EXCEPT ![s] = @ \cup {"uncaught_exception"}]
                /\ pc' = [pc EXCEPT ![s] = "idle"]
                /\ UNCHANGED <<transcribed_text, transcription_text,
                               final_text_for_download>>
           ELSE LET text == Speech(audio_file) IN
                /\ transcribed_text' = [transcribed_text EXCEPT ![s] = text]
                /\ IF TranscriptAccepted(text)
                     THEN /\ transcription_text' = [transcription_text EXCEPT ![s] = text]
                          /\ final_text_for_download' =
                                 [final_text_for_download EXCEPT ![s] = text]
                          /\ IF llm # NoneVal /\ reformat_prompt # NoneVal
                               THEN /\ pc' = [pc EXCEPT ![s] = "reformat"]
                                    /\ notices' = [notices EXCEPT ![s] =
                                           @ \cup {"ok_transcribed"}]
                               ELSE /\ pc' = [pc EXCEPT ![s] = "persist"]
                                    /\ notices' = [notices EXCEPT ![s] =
                                           @ \cup {"ok_transcribed"} \cup
                                           (IF ~LLM_AVAILABLE
                                              THEN {"info_reformat_disabled"} ELSE {})]
                     ELSE /\ notices' = [notices EXCEPT ![s] =
                                 @ \cup {"ok_transcribed", "err_transcription_failed"}
                                   \cup ChatBlockNotices(transcription_text[s])]
                          /\ pc' = [pc EXCEPT ![s] = "idle"]
                          /\ UNCHANGED <<transcription_text, final_text_for_download>>
    /\ UNCHANGED <<LLM_AVAILABLE, active, chat_history, chain, youtube_url, user_input,
                   audio_file_path, audio_file, transcription_txt, text_area,
                   llm_requests, last, snap>>

\* Lines 183-196: the reformat chain is invoked with the raw transcript; its
\* content replaces the transcript when not empty; an exception or an empty
\* content is reported and the raw transcript stays.
Reformat(s) ==
    /\ s \in active
    /\ pc[s] = "reformat"
    /\ calls' = [calls EXCEPT ![s] = Append(@, "llm")]
    /\ llm_requests' = [llm_requests EXCEPT ![s] =
           @ \cup {Request(reformat_prompt, transcribed_text[s], NoneVal, NoneVal)}]
    /\ \E outcome \in {"content", "empty", "raise"} :
         LET reformatted_content ==
                 IF outcome = "content" THEN Markdown(transcribed_text[s]) ELSE ""
             text == ReformattedOrRaw(transcribed_text[s], reformatted_content)
         IN  IF outcome = "raise"
               THEN /\ notices' = [notices EXCEPT ![s] = @ \cup {"err_reformat"}]
                    /\ UNCHANGED <<transcription_text, final_text_for_download>>
               ELSE /\ final_text_for_download' =
                           [final_text_for_download EXCEPT ![s] = text]
                    /\ transcription_text' = [transcription_text EXCEPT ![s] = text]
                    /\ notices' = [notices EXCEPT ![s] = @ \cup
                           (IF Truthy(reformatted_content)
                              THEN {"ok_reformatted"} ELSE {"warn_llm_empty"})]
    /\ pc' = [pc EXCEPT ![s] = "persist"]
    /\ UNCHANGED <<LLM_AVAILABLE, active, chat_history, chain, youtube_url, user_input,
                   audio_file_path, transcribed_text, audio_file, transcription_txt,
                   text_area, last, snap>>

\* Lines 199-208 and the chat block of the same run: transcription.txt is
\* opened for writing (which empties it) and the raw transcript is written;
\* a failure of either is reported and the run goes on; the raw transcript
\* is shown in the text area.
Persist(s) ==
    /\ s \in active
    /\ pc[s] = "persist"
    /\ calls' = [calls EXCEPT ![s] = Append(@, "write")]
    /\ \E outcome \in {"written", "open_fails", "write_fails"} :
         /\ transcription_txt' =
                CASE outcome = "written" ->
                         PersistedText(transcribed_text[s], final_text_for_download[s])
                  [] outcome = "open_fails" -> transcription_txt
                  [] OTHER -> ""
         /\ notices' = [notices EXCEPT ![s] =
                @ \cup (IF outcome = "written" THEN {"info_saved"} ELSE {"warn_save_failed"})
                  \cup {"ok_done"} \cup ChatBlockNotices(transcription_text[s])]
    /\ text_area' = [text_area EXCEPT ![s] = transcribed_text[s]]
    /\ pc' = [pc EXCEPT ![s] = "idle"]
    /\ UNCHANGED <<LLM_AVAILABLE, active, transcription_text, chat_history, chain,
                   youtube_url, user_input, audio_file_path, transcribed_text,
                   final_text_for_download, audio_file, llm_requests, last, snap>>

\* Lines 217-239: a question is submitted in the chat input, which exists
\* only while there is a transcript.  The user message is appended, then the
\* session's chain is invoked with contexto and pergunta; the assistant
\* message is appended when the chain returns.  An exception of the chain is
\* not caught: it ends the script run, and Streamlit shows it.
ChatSubmit(s, question) ==
    /\ s \in active
    /\ pc[s] = "idle"
    /\ ChatOffered(transcription_text[s])
    /\ Len(chat_history[s]) + 2 <= MaxHistory
    /\ BeginRun(s, "chat")
    /\ user_input' = [user_input EXCEPT ![s] = question]
    /\ IF Truthy(question)
         THEN \E outcome \in {"content", "raise"} :
                LET keys == {"contexto", "pergunta"}
                    asked == Append(chat_history[s], Message("user", question))
                    bot_response == Answer(transcription_text[s], question)
                IN  IF MissingVariables(chain[s], keys) # {}
                      THEN /\ chat_history' = [chat_history EXCEPT ![s] = asked]
                           /\ notices' = [notices EXCEPT ![s] =
                                  {"chat_input", "uncaught_exception"}]
                           /\ UNCHANGED <<calls, llm_requests>>
                      ELSE /\ calls' = [calls EXCEPT ![s] = <<"llm">>]
                           /\ llm_requests' = [llm_requests EXCEPT ![s] =
                                  {Request(chain[s], NoneVal,
                                           transcription_text[s], question)}]
                           /\ IF outcome = "raise"
                                THEN /\ chat_history' = [chat_history EXCEPT ![s] = asked]
                                     /\ notices' = [notices EXCEPT ![s] =
                                            {"chat_input", "uncaught_exception"}]
                                ELSE /\ chat_history' = [chat_history EXCEPT ![s] =
                                            Append(asked, Message("assistant", bot_response))]
                                     /\ notices' = [notices EXCEPT ![s] = {"chat_input"}]
         ELSE /\ notices' = [notices EXCEPT ![s] = {"chat_input"}]
              /\ UNCHANGED <<chat_history, calls, llm_requests>>
    /\ UNCHANGED <<LLM_AVAILABLE, active, pc, transcription_text, chain, youtube_url,
                   audio_file_path, transcribed_text, final_text_for_download,
                   audio_file, transcription_txt>>

Next ==
    \/ \E s \in AllSessions : FirstRun(s)
    \/ \E s \in AllSessions, url \in URLs : SubmitURL(s, url)
    \/ \E s \in AllSessions : RemoveStale(s)
    \/ \E s \in AllSessions : Download(s)
    \/ \E s \in AllSessions : Transcribe(s)
    \/ \E s \in AllSessions : Reformat(s)
    \/ \E s \in AllSessions : Persist(s)
    \/ \E s \in AllSessions, question \in Questions : ChatSubmit(s, question)

Spec == Init /\ [][Next]_vars

\* ------------------------------------------------------ two sessions
\* Two browser tabs on one server process with the LLM configured: each has
\* its own st.session_state and its own script thread; the working directory,
\* and so the files "downloaded_audio" and "transcription.txt", is one.
InitMulti ==
    /\ LLM_AVAILABLE = TRUE
    /\ active = AllSessions
    /\ pc = [s \in AllSessions |-> "new"]
    /\ transcription_text = [s \in AllSessions |-> NoneVal]
    /\ chat_history = [s \in AllSessions |-> <<>>]
    /\ chain = [s \in AllSessions |-> NoneVal]
    /\ youtube_url = [s \in AllSessions |-> ""]
    /\ user_input = [s \in AllSessions |-> NoneVal]
    /\ audio_file_path = [s \in AllSessions |-> NoneVal]
    /\ transcribed_text = [s \in AllSessions |-> NoneVal]
    /\ final_text_for_download = [s \in AllSessions |-> NoneVal]
    /\ audio_file = NoneVal
    /\ transcription_txt = NoneVal
    /\ notices = [s \in AllSessions |-> {}]
    /\ text_area = [s \in AllSessions |-> NoneVal]
    /\ calls = [s \in AllSessions |-> <<>>]
    /\ llm_requests = [s \in AllSessions |-> {}]
    /\ last = [s \in AllSessions |-> "none"]
    /\ snap = [s \in AllSessions |-> [text |-> NoneVal, history |-> <<>>]]

\* The video each session asks for.
OwnURL(s) == IF s = 1 THEN "u1" ELSE "u2"

\* Each session presses the transcribe button once, with its own URL.
SubmitOwnURL(s) ==
    /\ last[s] = "start"
    /\ SubmitURL(s, OwnURL(s))

\* The script runs of the two sessions, interleaved at their external calls.
NextMulti ==
    \/ \E s \in AllSessions : FirstRun(s)
    \/ \E s \in AllSessions : SubmitOwnURL(s)
    \/ \E s \in AllSessions : RemoveStale(s)
    \/ \E s \in AllSessions : Download(s)
    \/ \E s \in AllSessions : Transcribe(s)
    \/ \E s \in AllSessions : Reformat(s)
    \/ \E s \in AllSessions : Persist(s)

SpecMulti == InitMulti /\ [][NextMulti]_vars

\* ----------------------------------------------------------------- claims
\* The script run of session s that handled event is over.
RunOver(s, event) == s \in active /\ pc[s] = "idle" /\ last[s] = event

\* The current/last script run of session s made the external call c.
Called(s, c) == \E i \in 1..Len(calls[s]) : calls[s][i] = c

\* history is a sequence of (user, assistant) pairs.
Paired(history) ==
    /\ Len(history) % 2 = 0
    /\ \A i \in 1..Len(history) :
         history[i].role = (IF i % 2 = 1 THEN "user" ELSE "assistant")

\* C1: in every reachable state the chat history is a sequence of user
\* message immediately followed by its assistant message, and a chat turn
\* that ended in an exception of the chain left the history as it was when
\* the turn began.
C1_PairedHistory ==
    \A s \in active :
      /\ Paired(chat_history[s])
      /\ (RunOver(s, "chat") /\ "uncaught_exception" \in notices[s])
            => chat_history[s] = snap[s].history

\* C2: a script run that handles an empty URL on the transcribe button, or
\* an empty chat question, makes no external call (no removal, download,
\* transcription, LLM request or file write), does not enter the stages of a
\* transcription, and leaves the transcript and the chat history as they
\* were when it began.
C2_EmptyInputNoEffect ==
    \A s \in active :
      ((last[s] = "button" /\ youtube_url[s] = "") \/
       (last[s] = "chat" /\ user_input[s] = ""))
        => /\ pc[s] = "idle"
           /\ calls[s] = << >>
           /\ llm_requests[s] = {}
           /\ transcription_text[s] = snap[s].text
           /\ chat_history[s] = snap[s].history
           /\ last[s] = "button" => "warn_empty_url" \in notices[s]

\* C2 witness: an empty URL was submitted in Ready with a non-empty history.
C2_Witness ==
    \E s \in active :
      /\ RunOver(s, "button") /\ youtube_url[s] = ""
      /\ Truthy(snap[s].text) /\ snap[s].history # << >>

\* C3: once a non-empty URL is submitted, the history is empty and the
\* transcript is absent until the transcription of the new run sets it; at
\* no later point of the run, whatever its outcome, the session holds a
\* message of the previous history or a transcript other than the new run's
\* raw or reformatted text.
C3_NewRunClears ==
    \A s \in active :
      (last[s] = "button" /\ Truthy(youtube_url[s]))
        => /\ chat_history[s] = << >>
           /\ pc[s] \in {"remove", "download", "transcribe"}
                => transcription_text[s] = NoneVal
           /\ \/ transcription_text[s] = NoneVal
              \/ /\ Truthy(transcribed_text[s])
                 /\ transcription_text[s] \in
                        {transcribed_text[s], Markdown(transcribed_text[s])}

\* C3 witness: a run started in Ready with a non-empty history has failed
\* at the download.
C3_Witness ==
    \E s \in active :
      /\ RunOver(s, "button") /\ Truthy(youtube_url[s])
      /\ Truthy(snap[s].text) /\ snap[s].history # << >>
      /\ "err_download_failed" \in notices[s]

C6_Original ==
    \A s \in active :
      (RunOver(s, "button") /\ "ok_reformatted" \in notices[s] /\
       "info_saved" \in notices[s])
        => transcription_txt = final_text_for_download[s]

\* C6 as amended: when the LLM returned non-empty content R, the final text
\* R is the session's transcript (the context of the chat), while the file,
\* when written, and the text area hold the raw transcript.
C6_FinalInSession ==
    \A s \in active :
      (last[s] = "button" /\ "ok_reformatted" \in notices[s])
        => /\ transcription_text[s] = Markdown(transcribed_text[s])
           /\ final_text_for_download[s] = Markdown(transcribed_text[s])
           /\ transcription_text[s] # transcribed_text[s]
           /\ pc[s] = "idle"
                => /\ text_area[s] = transcribed_text[s]
                   /\ "info_saved" \in notices[s]
                        => transcription_txt = transcribed_text[s]

\* C6 witness: a reformatted run is over and its file was written.
C6_Witness ==
    \E s \in active :
      /\ RunOver(s, "button") /\ "ok_reformatted" \in notices[s]
      /\ "info_saved" \in notices[s]

\* C7: without the LLM credential the session starts (its script runs do
\* not end in an exception), and a run with a non-empty transcript ends in
\* Ready without an LLM request, with the transcript equal to the raw text
\* and an empty history.
C7_DegradedMode ==
    ~LLM_AVAILABLE =>
      \A s \in active :
        /\ pc[s] # "crashed"
        /\ "uncaught_exception" \notin notices[s]
        /\ (RunOver(s, "button") /\ Truthy(transcribed_text[s]))
              => /\ llm_requests[s] = {}
                 /\ transcription_text[s] = transcribed_text[s]
                 /\ chat_history[s] = << >>

\* C8: a run that ended without a non-empty transcript (the downloader
\* raised, the file was absent, Whisper raised or returned an empty text)
\* leaves the session in Idle with an error on screen: no transcript, an
\* empty history, no chat input, no LLM request and no file write; after a
\* failed download Whisper was not called either.
C8_FailureReturnsToIdle ==
    \A s \in active :
      (RunOver(s, "button") /\ Truthy(youtube_url[s]) /\ ~Truthy(transcribed_text[s]))
        => /\ transcription_text[s] = NoneVal
           /\ chat_history[s] = << >>
           /\ llm_requests[s] = {}
           /\ ~Called(s, "llm") /\ ~Called(s, "write")
           /\ text_area[s] = NoneVal
           /\ "chat_input" \notin notices[s]
           /\ notices[s] \cap {"err_download_failed", "err_transcription_failed",
                               "uncaught_exception"} # {}
           /\ audio_file_path[s] = NoneVal
                => /\ "err_download_failed" \in notices[s]
                   /\ ~Called(s, "transcribe")

\* C8 witness: a run started in Ready with a non-empty history ended with
\* an empty transcript.
C8_Witness ==
    \E s \in active :
      /\ RunOver(s, "button") /\ transcribed_text[s] = ""
      /\ "err_transcription_failed" \in notices[s]
      /\ snap[s].history # << >>

\* C9: a chat turn with a non-empty question sends exactly one LLM request,
\* built from a template other than the reformat template, with contexto
\* bound to the transcript and pergunta to the question; when the LLM
\* returned, the history grew by the pair (user: question, assistant: answer).
C9_ChatUsesQATemplate ==
    \A s \in active :
      (RunOver(s, "chat") /\ Truthy(user_input[s]))
        => /\ Cardinality(llm_requests[s]) = 1
           /\ \A r \in llm_requests[s] :
                /\ r.template # reformat_prompt
                /\ r.contexto = transcription_text[s]
                /\ r.pergunta = user_input[s]
           /\ "uncaught_exception" \notin notices[s]
                => chat_history[s] = snap[s].history \o
                       << Message("user", user_input[s]),
                          Message("assistant",
                                  Answer(transcription_text[s], user_input[s])) >>

\* C10: a chat question is handled, and a chat request is sent to the LLM,
\* only while the session has a transcript; while it has none, no chat
\* input is on screen.
C10_ChatNeedsTranscript ==
    \A s \in active :
      /\ last[s] = "chat"
           => Truthy(snap[s].text) /\ Truthy(transcription_text[s])
      /\ ~Truthy(transcription_text[s]) => "chat_input" \notin notices[s]
      /\ \A r \in llm_requests[s] :
           r.pergunta # NoneVal => Truthy(r.contexto)

\* C10 witness: a question was handled in Ready, and before that run the
\* session had been refused nothing: it had a transcript.
C10_Witness ==
    \E s \in active :
      /\ RunOver(s, "chat") /\ Truthy(user_input[s])
      /\ Truthy(snap[s].text)

\* C11: with two sessions whose runs interleave, the raw transcript a
\* session's run obtains is the transcription of the audio of that session's
\* own URL, and a run whose download put its file in the audio slot is not
\* ended by that file having been removed under it.
C11_SessionsIsolated ==
    \A s \in active :
      /\ (last[s] = "button" /\ transcribed_text[s] # NoneVal)
            => transcribed_text[s] = Speech(youtube_url[s])
      /\ pc[s] = "transcribe" => audio_file # NoneVal

\* The external calls of the current/last run of session s, without the
\* removal of the stale file.
Stages(s) == SelectSeq(calls[s], LAMBDA c : c # "remove")

\* C12: in a run that handles a non-empty URL the external calls are, in
\* this order and each at most once, download, transcribe, LLM reformat and
\* file write (a removal of the stale file can only come first); Whisper is
\* called only after a download that succeeded, the LLM and the file write
\* only after a non-empty transcript, and the downloader is called once.
C12_StageOrder ==
    \A s \in active :
      (last[s] = "button" /\ Truthy(youtube_url[s]))
        => /\ \E n \in 0..4 :
                Stages(s) = SubSeq(<<"download", "transcribe", "llm", "write">>, 1, n)
           /\ \A i \in 1..Len(calls[s]) : calls[s][i] = "remove" => i = 1
           /\ Called(s, "transcribe")
                => /\ "ok_downloaded" \in notices[s]
                   /\ Truthy(audio_file_path[s])
           /\ Called(s, "llm") => Truthy(transcribed_text[s])
           /\ Called(s, "write") => Truthy(transcribed_text[s])
           /\ pc[s] = "idle" => Called(s, "download")

\* C12 witness: a run went through all four stages after removing the stale
\* file of the run before it.
C12_Witness ==
    \E s \in active :
      /\ RunOver(s, "button")
      /\ calls[s] = <<"remove", "download", "transcribe", "llm", "write">>

\* C13: whenever Whisper is about to be called in a run, the file in the
\* audio slot is the audio of the URL submitted in that run, written by that
\* run's download, and the raw transcript the run obtains is the speech of
\* that URL: never a file left by an earlier run.
C13_NoStaleAudio ==
    \A s \in active :
      /\ pc[s] = "transcribe" => audio_file = youtube_url[s]
      /\ (last[s] = "button" /\ transcribed_text[s] # NoneVal)
            => transcribed_text[s] = Speech(youtube_url[s])

\* C14: a non-empty chat history implies a present, non-empty transcript,
\* and the transcript is never the empty string.
C14_HistoryNeedsTranscript ==
    \A s \in active :
      /\ chat_history[s] # << >> => Truthy(transcription_text[s])
      /\ transcription_text[s] # ""

\* C14 witness: a session in Ready holds the messages of two chat turns.
C14_Witness ==
    \E s \in active :
      /\ chat_history[s] # << >> /\ Truthy(transcription_text[s])
      /\ last[s] = "chat" /\ Len(chat_history[s]) >= 2

====
